---- MODULE Spec2Model ----
(***************************************************************************)
(* TelegramInterfaceActor (src/actors/telegram_actor.py): the long-poll    *)
(* ingestion loop, the pool of per-chat typing tasks, shutdown, and the    *)
(* chunked outbound sender.                                                *)
(*                                                                         *)
(* asyncio is cooperative: a coroutine runs without interruption from one  *)
(* suspension point (an awaited API call, an awaited bus send, a sleep) to *)
(* the next.  Each action below resumes one task at its suspension point   *)
(* with one outcome and runs it to its next suspension point.              *)
(***************************************************************************)
EXTENDS Integers, Sequences, FiniteSets, TLC

\* ---- bounds of the model ------------------------------------------------
MaxUpdateId == 2        \* update ids the remote may return: 1..MaxUpdateId
MaxBatch == 2           \* longest batch one getUpdates call returns
MaxOrphans == 1         \* unfinished typing tasks outside the pool, at most
MaxTextLen == 5         \* longest outbound text
\* ---- configuration values (config/settings.py), scaled down --------------
TELEGRAM_MAX_TYPING_TASKS == 1
TELEGRAM_TYPING_CLEANUP_THRESHOLD == 2
TELEGRAM_MAX_MESSAGE_LENGTH == 3
\* TELEGRAM_MAX_TYPING_TASKS where _start_typing is checked by itself, large
\* enough for a tenth of the pool to be more than one entry
EvictMax == 20

Ids == 1..MaxUpdateId
\* chat ids of the conversations: two of them fill a pool of one and force an
\* eviction
Chats == {1, 2}

Min(a, b) == IF a < b THEN a ELSE b
Max(a, b) == IF a > b THEN a ELSE b
Last(s) == s[Len(s)]

VARIABLES
    update_offset,            \* self._update_offset
    sent_offset,              \* "offset" parameter of the latest getUpdates request
    poll_pc,                  \* where the polling task is suspended
    poll_cancel,              \* cancel() requested on the polling task, not yet delivered
    updates,                  \* local `updates` of _polling_loop: ids of the last batch
    upd_idx,                  \* index in `updates` of the update last handed to _process_update
    dispatched,               \* ids of the updates handed to _process_update so far
    last_fetch,               \* outcome of the getUpdates call that returned last
    paused,                   \* the sleep(5) completed since that call returned
    is_running,               \* BaseActor.is_running; nothing in this actor writes it
    remote,                   \* what the Bot API returns from getUpdates: a kind of RemoteKinds
    typing_tasks,             \* self._typing_tasks, in insertion order: <<[chat, st]>>
    orphans,                  \* unfinished typing tasks no longer in the pool
    typing_cleanup_counter,   \* self._typing_cleanup_counter
    last_evicted,             \* entries evicted by the latest _start_typing
    sd_pc,                    \* where shutdown() is
    text,                     \* argument of _send_message
    chunks,                   \* local `chunks` of _send_message
    send_pc,                  \* where _send_message is
    chunk_idx,                \* chunk being sent
    calls,                    \* sendMessage calls made: <<[chunk, mode, ok]>>
    envelope,                 \* the message handle_message was called with
    bus                       \* messages handle_message has sent through the actor system

pollVars == <<update_offset, sent_offset, poll_pc, poll_cancel, updates, upd_idx,
              dispatched, last_fetch, paused, is_running, remote>>
typingVars == <<typing_tasks, orphans, typing_cleanup_counter, last_evicted>>
sendVars == <<text, chunks, send_pc, chunk_idx, calls, envelope, bus>>
vars == <<pollVars, typingVars, sd_pc, sendVars>>

\* ---- typing tasks ---------------------------------------------------------
\* A task in the pool is suspended in its sendChatAction call ("api") or in
\* its sleep ("sleep"), or has ended because sendChatAction raised ("failed").
\* A task outside the pool that has not finished is "running" (suspended in
\* either place) or "cancelled" (cancel() requested at its suspension point,
\* the CancelledError not yet raised in it).  A task that has finished and is
\* outside the pool is no longer represented; a new task is represented from
\* its first sendChatAction call on.
OrphanStates == {"running", "cancelled"}
IsDone(st) == st = "failed"
IsActive(st) == st \in {"api", "sleep", "running"}
Unfinished(st) == IF IsDone(st) THEN st ELSE "running"

\* Task.cancel(): a request; no effect on a task that is done
CancelTask(st) == IF IsDone(st) THEN st ELSE "cancelled"

NoOrphans == [k \in Chats \X OrphanStates |-> 0]
AddOrphan(orph, c, st) ==
    IF st \in OrphanStates THEN [orph EXCEPT ![<<c, st>>] = @ + 1] ELSE orph
OrphanTotal(orph) ==
    LET RECURSIVE Sum(_)
        Sum(S) == IF S = {} THEN 0
                  ELSE LET k == CHOOSE x \in S : TRUE IN orph[k] + Sum(S \ {k})
    IN Sum(Chats \X OrphanStates)

RemoveAt(s, i) == SubSeq(s, 1, i - 1) \o SubSeq(s, i + 1, Len(s))
InPool(pool, c) == \E i \in 1..Len(pool) : pool[i].chat = c
IndexOf(pool, c) == CHOOSE i \in 1..Len(pool) : pool[i].chat = c

\* a typing state is a record [pool, orph, counter, evicted]
TypingState == [pool |-> typing_tasks, orph |-> orphans,
                counter |-> typing_cleanup_counter, evicted |-> last_evicted]

StopTypingOldest(ty, c) ==
    IF ty.pool # <<>>
    THEN LET i == IF InPool(ty.pool, c) THEN IndexOf(ty.pool, c) ELSE 1 IN
         [ty EXCEPT !.pool = RemoveAt(@, i),
                    !.orph = AddOrphan(@, ty.pool[i].chat, CancelTask(ty.pool[i].st))]
    ELSE ty

StopTypingNoCancel(ty, c) ==
    IF InPool(ty.pool, c)
    THEN LET i == IndexOf(ty.pool, c) IN
         [ty EXCEPT !.pool = RemoveAt(@, i),
                    !.orph = AddOrphan(@, c, Unfinished(ty.pool[i].st))]
    ELSE ty

StopTyping(ty, c) ==
    IF InPool(ty.pool, c)
    THEN LET i == IndexOf(ty.pool, c) IN
         [ty EXCEPT !.pool = RemoveAt(@, i),
                    !.orph = AddOrphan(@, c, CancelTask(ty.pool[i].st))]
    ELSE ty

CleanupEverything(pool) == <<>>

\* _cleanup_typing_tasks: the entries whose task is done are deleted
CleanupTypingTasks(pool) == SelectSeq(pool, LAMBDA e : ~IsDone(e.st))

ToRemoveNoMin(n) == n \div 10

ToRemove(n) == Max(1, n \div 10)

RECURSIVE EvictNewest(_, _)
EvictNewest(ty, n) ==
    IF n = 0 THEN ty
    ELSE EvictNewest([ty EXCEPT !.pool = SubSeq(@, 1, Len(@) - 1),
                                !.orph = AddOrphan(@, Last(ty.pool).chat,
                                                   CancelTask(Last(ty.pool).st))],
                     n - 1)

\* `for _ in range(to_remove):` cancel and delete next(iter(self._typing_tasks))
RECURSIVE EvictOldest(_, _)
EvictOldest(ty, n) ==
    IF n = 0 THEN ty
    ELSE EvictOldest([ty EXCEPT !.pool = Tail(@),
                                !.orph = AddOrphan(@, Head(ty.pool).chat,
                                                   CancelTask(Head(ty.pool).st))],
                     n - 1)

\* _start_typing with TELEGRAM_MAX_TYPING_TASKS = max
StartTypingMax(ty, c, max) ==
    LET t1 == StopTyping(ty, c)
        cnt == t1.counter + 1
        t2 == IF cnt >= TELEGRAM_TYPING_CLEANUP_THRESHOLD
              THEN [t1 EXCEPT !.pool = CleanupTypingTasks(@), !.counter = 0]
              ELSE [t1 EXCEPT !.counter = cnt]
        t3 == IF Len(t2.pool) >= max
              THEN LET swept == [t2 EXCEPT !.pool = CleanupTypingTasks(@)] IN
                   IF Len(swept.pool) >= max
                   THEN [EvictOldest(swept, ToRemove(Len(swept.pool)))
                            EXCEPT !.evicted = ToRemove(Len(swept.pool))]
                   ELSE [swept EXCEPT !.evicted = 0]
              ELSE [t2 EXCEPT !.evicted = 0]
    IN [t3 EXCEPT !.pool = Append(@, [chat |-> c, st |-> "api"])]

StartTypingNone(ty, c) == ty

StartTyping(ty, c) == StartTypingMax(ty, c, TELEGRAM_MAX_TYPING_TASKS)

SetTyping(ty) ==
    /\ typing_tasks' = ty.pool
    /\ orphans' = ty.orph
    /\ typing_cleanup_counter' = ty.counter
    /\ last_evicted' = ty.evicted
    /\ OrphanTotal(ty.orph) <= MaxOrphans

\* ---- outbound sender --------------------------------------------------------
\* a text is a sequence of characters; "a" stands for any character that is
\* not white space
NL == "\n"
Alphabet == {"a", " ", NL}
WhiteSpace == {" ", NL}
Texts == UNION {[1..n -> Alphabet] : n \in 0..MaxTextLen}

\* str.split("\n\n"): cut at every occurrence of the separator, found left to
\* right without overlap
RECURSIVE SplitParagraphs(_)
SplitParagraphs(s) ==
    IF \E i \in 1..(Len(s) - 1) : s[i] = NL /\ s[i + 1] = NL
    THEN LET i == CHOOSE k \in 1..(Len(s) - 1) :
                     /\ s[k] = NL /\ s[k + 1] = NL
                     /\ \A m \in 1..(k - 1) : ~(s[m] = NL /\ s[m + 1] = NL)
         IN <<SubSeq(s, 1, i - 1)>> \o SplitParagraphs(SubSeq(s, i + 2, Len(s)))
    ELSE <<s>>

\* str.strip(): white space removed at both ends
RECURSIVE LStrip(_)
LStrip(s) == IF s # <<>> /\ Head(s) \in WhiteSpace THEN LStrip(Tail(s)) ELSE s
RECURSIVE RStrip(_)
RStrip(s) == IF s # <<>> /\ Last(s) \in WhiteSpace THEN RStrip(SubSeq(s, 1, Len(s) - 1)) ELSE s
Strip(s) == RStrip(LStrip(s))

\* `if current: chunks.append(current.strip())`
Flush(cs, current) == IF current # <<>> THEN Append(cs, Strip(current)) ELSE cs

\* the loop over the paragraphs and the flush after it
RECURSIVE Accumulate(_, _, _)
Accumulate(ps, current, cs) ==
    IF ps = <<>> THEN Flush(cs, current)
    ELSE LET paragraph == Head(ps) IN
         IF Len(current) + Len(paragraph) + 2 > TELEGRAM_MAX_MESSAGE_LENGTH
         THEN Accumulate(Tail(ps), paragraph, Flush(cs, current))
         ELSE Accumulate(Tail(ps),
                         (IF current # <<>> THEN current \o <<NL, NL>> ELSE current)
                             \o paragraph,
                         cs)

SplitLongMessage(t) ==
    IF Len(t) <= TELEGRAM_MAX_MESSAGE_LENGTH THEN <<t>>
    ELSE Accumulate(SplitParagraphs(t), <<>>, <<>>)

\* no message is being handled
NoEnvelope == [type |-> "none", chat |-> 0, text |-> <<>>, error_type |-> "none"]

InitPolling ==
    /\ update_offset = 0
    /\ sent_offset = 0
    /\ poll_pc = "none"
    /\ poll_cancel = FALSE
    /\ updates = <<>>
    /\ upd_idx = 0
    /\ dispatched = {}
    /\ last_fetch = "none"
    /\ paused = FALSE
    /\ is_running = TRUE
    /\ sd_pc = "idle"

InitMain ==
    /\ InitPolling
    /\ typing_tasks = <<>>
    /\ orphans = NoOrphans
    /\ typing_cleanup_counter = 0
    /\ last_evicted = 0

\* the actor after construction; no _send_message call is in progress
Init ==
    /\ InitMain
    /\ remote = "any"
    /\ text = <<>>
    /\ chunks = <<>>
    /\ send_pc = "idle"
    /\ chunk_idx = 0
    /\ calls = <<>>
    /\ envelope = NoEnvelope
    /\ bus = <<>>

\* _send_message called with any text
InitSend ==
    /\ InitMain
    /\ remote = "any"
    /\ text \in Texts
    /\ chunks = <<>>
    /\ send_pc = "start"
    /\ chunk_idx = 0
    /\ calls = <<>>
    /\ envelope = NoEnvelope
    /\ bus = <<>>

NextChunkGiveUp(cs, i) == "done"

\* after chunk i: the next chunk's first attempt, or the end of the loop
NextChunk(cs, i) == IF i < Len(cs) THEN "md" ELSE "done"

\* `chunks = self._split_long_message(text)`, then the first sendMessage is awaited
SendSplit ==
    /\ send_pc = "start"
    /\ chunks' = SplitLongMessage(text)
    /\ send_pc' = NextChunk(chunks', 0)
    /\ chunk_idx' = IF chunks' # <<>> THEN 1 ELSE 0
    /\ UNCHANGED <<text, calls, envelope, bus, pollVars, typingVars, sd_pc>>

\* sendMessage with parse_mode returns or raises
SendChunkMd ==
    /\ send_pc = "md"
    /\ \E ok \in BOOLEAN :
          /\ calls' = Append(calls, [chunk |-> chunk_idx, mode |-> "Markdown", ok |-> ok])
          /\ send_pc' = IF ok THEN NextChunk(chunks, chunk_idx) ELSE "plain"
          /\ chunk_idx' = IF ok /\ chunk_idx < Len(chunks) THEN chunk_idx + 1 ELSE chunk_idx
    /\ UNCHANGED <<text, chunks, envelope, bus, pollVars, typingVars, sd_pc>>

\* the retry without parse_mode returns or raises
SendChunkPlain ==
    /\ send_pc = "plain"
    /\ \E ok \in BOOLEAN :
          /\ calls' = Append(calls, [chunk |-> chunk_idx, mode |-> "plain", ok |-> ok])
          /\ send_pc' = NextChunk(chunks, chunk_idx)
          /\ chunk_idx' = IF chunk_idx < Len(chunks) THEN chunk_idx + 1 ELSE chunk_idx
    /\ UNCHANGED <<text, chunks, envelope, bus, pollVars, typingVars, sd_pc>>

NextSend ==
    \/ SendSplit
    \/ SendChunkMd
    \/ SendChunkPlain

SpecSend == InitSend /\ [][NextSend]_vars

\* ---- polling loop -----------------------------------------------------------
\* what getUpdates may return: any sequence of distinct updates, in any order
Batches == {b \in UNION {[1..n -> Ids] : n \in 0..MaxBatch} :
               \A i, j \in DOMAIN b : i # j => b[i] # b[j]}
Ascending(s) == \A k \in 1..(Len(s) - 1) : s[k] < s[k + 1]
\* The remote end, by how far it keeps to the Bot API's contract of getUpdates:
\* "any" returns any batch, "from_offset" only ids at or above the offset of
\* the request, "ordered" such ids in ascending order.
RemoteKinds == {"any", "from_offset", "ordered"}
Returns(kind, off) ==
    {b \in Batches : /\ kind # "any" => \A k \in DOMAIN b : b[k] >= off
                     /\ kind = "ordered" => Ascending(b)}
FetchOutcomes == {"ok", "timeout", "transport_error", "api_rejected"}
Suspended == {"fetching", "send_md", "send_plain", "bus_send", "backoff"}
PollingTaskDone == poll_pc \in {"stopped", "escaped"}

\* initialize(): getMe answered, the polling task is created and issues its
\* first getUpdates
Initialize ==
    /\ poll_pc = "none"
    /\ sd_pc = "idle"
    /\ poll_pc' = "fetching"
    /\ sent_offset' = update_offset
    /\ UNCHANGED <<update_offset, poll_cancel, updates, upd_idx, dispatched,
                   last_fetch, paused, is_running, remote, typingVars, sd_pc, sendVars>>

LoopTopOnce == "stopped"

\* `while self.is_running:` followed by the call of _get_updates
LoopTop == IF is_running THEN "fetching" ELSE "stopped"

NewOffsetSame(off, batch) == off

NewOffsetFirst(off, batch) == IF batch # <<>> THEN batch[1] + 1 ELSE off

NewOffsetReset(off, batch) == IF batch # <<>> THEN Last(batch) + 1 ELSE 0

\* `if updates: self._update_offset = updates[-1]["update_id"] + 1`
NewOffset(off, batch) == IF batch # <<>> THEN Last(batch) + 1 ELSE off

OffsetAfterLost(outcome, off, batch) ==
    IF outcome = "ok" THEN NewOffset(off, batch) ELSE 0

\* the cursor when _get_updates returns: written in the try body after the
\* call returned, left alone by both except clauses
OffsetAfter(outcome, off, batch) ==
    IF outcome = "ok" THEN NewOffset(off, batch) ELSE off

Handed(ups, i, j) == {k \in i..Min(j, Len(ups)) : TRUE}

\* `for update in updates: await self._process_update(update)` from update i
\* on, up to the next suspension point.  Updates i..j-1 have no message or no
\* text (_process_update returns at once); update j is a command (the reply's
\* sendMessage is awaited), a text (typing starts, the bus send is awaited) or
\* lacks a field _process_update indexes (KeyError, caught by the loop, which
\* sleeps).  j beyond the batch: the loop goes round and fetches again, sending
\* the cursor `off`.
Dispatch(ups, i, off) ==
    \E j \in i..(Len(ups) + 1) :
        /\ dispatched' = dispatched \cup {ups[k] : k \in Handed(ups, i, j)}
        /\ upd_idx' = Min(j, Len(ups))
        /\ IF j > Len(ups)
           THEN /\ poll_pc' = LoopTop
                /\ UNCHANGED typingVars
           ELSE \/ /\ poll_pc' = "send_md"
                   /\ UNCHANGED typingVars
                \/ /\ \E c \in Chats : SetTyping(StartTyping(TypingState, c))
                   /\ poll_pc' = "bus_send"
                \/ /\ poll_pc' = "backoff"
                   /\ UNCHANGED typingVars
        /\ sent_offset' = IF poll_pc' = "fetching" THEN off ELSE sent_offset

\* the awaited getUpdates call returns or raises
FetchReturn ==
    /\ poll_pc = "fetching"
    /\ ~poll_cancel
    /\ \E outcome \in FetchOutcomes, batch \in Returns(remote, sent_offset) :
          /\ outcome # "ok" => batch = <<>>
          /\ last_fetch' = outcome
          /\ paused' = FALSE
          /\ updates' = batch
          /\ update_offset' = OffsetAfter(outcome, update_offset, batch)
          /\ Dispatch(batch, 1, update_offset')
    /\ UNCHANGED <<poll_cancel, is_running, remote, sd_pc, sendVars>>

\* _send_message of a command reply (a template of one chunk): the sendMessage
\* with parse_mode returns or raises
SendMdReturn ==
    /\ poll_pc = "send_md"
    /\ ~poll_cancel
    /\ \E ok \in BOOLEAN :
          IF ok THEN Dispatch(updates, upd_idx + 1, update_offset)
          ELSE /\ poll_pc' = "send_plain"
               /\ UNCHANGED <<sent_offset, upd_idx, dispatched, typingVars>>
    /\ UNCHANGED <<update_offset, poll_cancel, updates, last_fetch, paused,
                   is_running, remote, sd_pc, sendVars>>

\* the plain retry returns or raises; either way _send_message returns
SendPlainReturn ==
    /\ poll_pc = "send_plain"
    /\ ~poll_cancel
    /\ Dispatch(updates, upd_idx + 1, update_offset)
    /\ UNCHANGED <<update_offset, poll_cancel, updates, last_fetch, paused,
                   is_running, remote, sd_pc, sendVars>>

\* the awaited send_message of the actor system returns or raises
BusSendReturn ==
    /\ poll_pc = "bus_send"
    /\ ~poll_cancel
    /\ \E ok \in BOOLEAN :
          IF ok THEN Dispatch(updates, upd_idx + 1, update_offset)
          ELSE /\ poll_pc' = "backoff"
               /\ UNCHANGED <<sent_offset, upd_idx, dispatched, typingVars>>
    /\ UNCHANGED <<update_offset, poll_cancel, updates, last_fetch, paused,
                   is_running, remote, sd_pc, sendVars>>

\* `await asyncio.sleep(5)` in the `except Exception` handler is over
BackoffDone ==
    /\ poll_pc = "backoff"
    /\ ~poll_cancel
    /\ paused' = TRUE
    /\ poll_pc' = LoopTop
    /\ sent_offset' = update_offset
    /\ UNCHANGED <<update_offset, poll_cancel, updates, upd_idx, dispatched,
                   last_fetch, is_running, remote, typingVars, sd_pc, sendVars>>

\* CancelledError raised at the suspension point.  It is a BaseException: the
\* `except Exception` clauses of _get_updates and _send_message let it through
\* and `except asyncio.CancelledError: break` of the loop catches it.  The
\* sleep(5) stands in a sibling except clause of that try, outside its body:
\* raised there, the CancelledError leaves _polling_loop.
CancelOutcome(pc) == IF pc = "backoff" THEN "escaped" ELSE "stopped"

\* The coroutine is over: its local `updates` and the position in it are gone.
PollCancelDelivered ==
    /\ poll_cancel
    /\ poll_pc \in Suspended
    /\ poll_pc' = CancelOutcome(poll_pc)
    /\ poll_cancel' = FALSE
    /\ updates' = <<>>
    /\ upd_idx' = 0
    /\ sent_offset' = update_offset
    /\ last_fetch' = "none"
    /\ paused' = FALSE
    /\ UNCHANGED <<update_offset, dispatched, is_running, remote, typingVars, sd_pc, sendVars>>

\* ---- typing task steps ------------------------------------------------------
\* sendChatAction returns (the task goes to sleep) or raises (the task ends
\* with that exception and stays in the pool as a finished task)
TypingApiReturn ==
    /\ \E i \in 1..Len(typing_tasks), ok \in BOOLEAN :
          /\ typing_tasks[i].st = "api"
          /\ typing_tasks' = [typing_tasks EXCEPT ![i].st = IF ok THEN "sleep" ELSE "failed"]
    /\ UNCHANGED <<orphans, typing_cleanup_counter, last_evicted, pollVars, sd_pc, sendVars>>

TypingSleepDone ==
    /\ \E i \in 1..Len(typing_tasks) :
          /\ typing_tasks[i].st = "sleep"
          /\ typing_tasks' = [typing_tasks EXCEPT ![i].st = "api"]
    /\ UNCHANGED <<orphans, typing_cleanup_counter, last_evicted, pollVars, sd_pc, sendVars>>

\* CancelledError raised in the api call or the sleep: `except CancelledError: pass`
TypingCancelDelivered ==
    /\ \E c \in Chats :
          /\ orphans[<<c, "cancelled">>] > 0
          /\ orphans' = [orphans EXCEPT ![<<c, "cancelled">>] = @ - 1]
    /\ UNCHANGED <<typing_tasks, typing_cleanup_counter, last_evicted, pollVars, sd_pc, sendVars>>

\* ---- inbound bus handler ----------------------------------------------------
\* handle_message: BOT_RESPONSE and ERROR stop typing for the chat of the
\* payload, then send and (BOT_RESPONSE) forward; the other types touch neither
\* the pool nor the cursor.  The sends after _stop_typing change none of the
\* variables of this specification.
MessageTypes == {"PROCESS_USER_MESSAGE", "BOT_RESPONSE", "ERROR", "STREAMING_CHUNK"}

HandleMessage ==
    /\ \E type \in MessageTypes :
          IF type \in {"BOT_RESPONSE", "ERROR"}
          THEN \E c \in Chats : SetTyping(StopTyping(TypingState, c))
          ELSE UNCHANGED typingVars
    /\ UNCHANGED <<pollVars, sd_pc, sendVars>>

\* ---- handle_message by itself ----------------------------------------------
\* config.messages.USER_MESSAGES, the entries _send_error_message can select:
\* the key "api_error" and one more key, with different texts
UserMessages == [api_error |-> <<"a">>, limit_exceeded |-> <<"a", "a">>]
ErrorTypes == {"api_error", "limit_exceeded", "unlisted"}
\* USER_MESSAGES.get(error_type, USER_MESSAGES["api_error"])
ErrorText(error_type) ==
    IF error_type \in DOMAIN UserMessages THEN UserMessages[error_type]
    ELSE UserMessages["api_error"]

Envelopes ==
    {[type |-> "BOT_RESPONSE", chat |-> c, text |-> t, error_type |-> "none"] :
        c \in Chats, t \in Texts}
    \cup {[type |-> "ERROR", chat |-> c, text |-> <<>>, error_type |-> k] :
        c \in Chats, k \in ErrorTypes}
    \cup {[type |-> y, chat |-> c, text |-> <<"a">>, error_type |-> "none"] :
        y \in {"PROCESS_USER_MESSAGE", "STREAMING_CHUNK"}, c \in Chats}

\* pools of one entry or none when the message arrives
HandlePools ==
    {<<>>} \cup {<<[chat |-> c, st |-> st]>> : c \in Chats, st \in {"api", "sleep", "failed"}}

InitHandle ==
    /\ InitPolling
    /\ remote = "any"
    /\ typing_tasks \in HandlePools
    /\ orphans = NoOrphans
    /\ typing_cleanup_counter = 0
    /\ last_evicted = 0
    /\ text = <<>>
    /\ chunks = <<>>
    /\ send_pc = "idle"
    /\ chunk_idx = 0
    /\ calls = <<>>
    /\ envelope \in Envelopes
    /\ bus = <<>>

ForwardsAny(type) == type \in {"BOT_RESPONSE", "ERROR"}

\* _send_bot_response ends with send_message("user_session", message);
\* _send_error_message ends with its _send_message
Forwards(type) == type = "BOT_RESPONSE"

\* handle_message of a BOT_RESPONSE or an ERROR, up to the first awaited
\* sendMessage: _stop_typing, the text chosen, _split_long_message
HandleBegin ==
    /\ send_pc = "idle"
    /\ envelope.type \in {"BOT_RESPONSE", "ERROR"}
    /\ SetTyping(StopTyping(TypingState, envelope.chat))
    /\ text' = IF envelope.type = "BOT_RESPONSE" THEN envelope.text
               ELSE ErrorText(envelope.error_type)
    /\ chunks' = SplitLongMessage(text')
    /\ send_pc' = NextChunk(chunks', 0)
    /\ chunk_idx' = IF chunks' # <<>> THEN 1 ELSE 0
    /\ UNCHANGED <<calls, envelope, bus, pollVars, sd_pc>>

\* after _send_message: the awaited send_message of the actor system, with the
\* message itself
HandleForward ==
    /\ send_pc = "done"
    /\ Forwards(envelope.type)
    /\ bus = <<>>
    /\ bus' = <<[to |-> "user_session", msg |-> envelope]>>
    /\ UNCHANGED <<text, chunks, send_pc, chunk_idx, calls, envelope, pollVars,
                   typingVars, sd_pc>>

\* handle_message of a PROCESS_USER_MESSAGE: a USER_MESSAGE with the same
\* payload goes to "user_session"
HandleUserMessage ==
    /\ envelope.type = "PROCESS_USER_MESSAGE"
    /\ bus = <<>>
    /\ bus' = <<[to |-> "user_session", msg |-> [envelope EXCEPT !.type = "USER_MESSAGE"]]>>
    /\ UNCHANGED <<text, chunks, send_pc, chunk_idx, calls, envelope, pollVars,
                   typingVars, sd_pc>>

NextHandle ==
    \/ HandleBegin
    \/ SendChunkMd
    \/ SendChunkPlain
    \/ HandleForward
    \/ HandleUserMessage

\* every awaited call returns or raises: the API calls have a timeout
SpecHandle == InitHandle /\ [][NextHandle]_vars /\ WF_vars(NextHandle)

\* ---- shutdown ---------------------------------------------------------------
RECURSIVE CancelAll(_)
CancelAll(ty) ==
    IF ty.pool = <<>> THEN ty
    ELSE CancelAll([ty EXCEPT !.pool = Tail(@),
                              !.orph = AddOrphan(@, Head(ty.pool).chat,
                                                 CancelTask(Head(ty.pool).st))])

\* `if self._polling_task: self._polling_task.cancel()`, then the await starts;
\* without a polling task (and so without a session) shutdown runs through
ShutdownBegin ==
    /\ sd_pc = "idle"
    /\ IF poll_pc = "none"
       THEN /\ sd_pc' = "done"
            /\ SetTyping(CancelAll(TypingState))
            /\ UNCHANGED poll_cancel
       ELSE /\ sd_pc' = "await_poll"
            /\ poll_cancel' = ~PollingTaskDone
            /\ UNCHANGED typingVars
    /\ UNCHANGED <<update_offset, sent_offset, poll_pc, updates, upd_idx, dispatched,
                   last_fetch, paused, is_running, remote, sendVars>>

PollingAwaitedNoWait == TRUE

\* `await self._polling_task` returns (or raises CancelledError, caught)
PollingAwaited == PollingTaskDone

\* after the await: every pool task cancelled, the pool cleared, the session's
\* close() awaited
ShutdownStopTyping ==
    /\ sd_pc = "await_poll"
    /\ PollingAwaited
    /\ SetTyping(CancelAll(TypingState))
    /\ sd_pc' = "closing"
    /\ UNCHANGED <<pollVars, sendVars>>

ShutdownClose ==
    /\ sd_pc = "closing"
    /\ sd_pc' = "done"
    /\ UNCHANGED <<pollVars, typingVars, sendVars>>

Next ==
    \/ Initialize
    \/ FetchReturn
    \/ SendMdReturn
    \/ SendPlainReturn
    \/ BusSendReturn
    \/ BackoffDone
    \/ PollCancelDelivered
    \/ TypingApiReturn
    \/ TypingSleepDone
    \/ TypingCancelDelivered
    \/ HandleMessage
    \/ ShutdownBegin
    \/ ShutdownStopTyping
    \/ ShutdownClose

Spec == Init /\ [][Next]_vars

\* the actor after construction, talking to a remote that keeps to the contract
InitRemote ==
    /\ InitMain
    /\ remote \in {"from_offset", "ordered"}
    /\ text = <<>>
    /\ chunks = <<>>
    /\ send_pc = "idle"
    /\ chunk_idx = 0
    /\ calls = <<>>
    /\ envelope = NoEnvelope
    /\ bus = <<>>

SpecRemote == InitRemote /\ [][Next]_vars

\* ---- _start_typing by itself, with a pool of EvictMax entries ---------------
EvictChats == 1..(EvictMax + 1)
\* pools the actor can hold: full or one short of full, the chats named in
\* insertion order, every task suspended except at most one that has failed
EvictPools ==
    {[i \in 1..n |-> [chat |-> i, st |-> IF i = f THEN "failed" ELSE "sleep"]] :
        n \in (EvictMax - 1)..EvictMax, f \in 0..EvictMax}

InitEvict ==
    /\ InitPolling
    /\ remote = "any"
    /\ typing_tasks \in EvictPools
    /\ orphans = [k \in EvictChats \X OrphanStates |-> 0]
    /\ typing_cleanup_counter \in 0..(TELEGRAM_TYPING_CLEANUP_THRESHOLD - 1)
    /\ last_evicted = 0
    /\ text = <<>>
    /\ chunks = <<>>
    /\ send_pc = "idle"
    /\ chunk_idx = 0
    /\ calls = <<>>
    /\ envelope = NoEnvelope
    /\ bus = <<>>

\* one call of _start_typing, made while no task cancelled earlier is still
\* unfinished
StartTypingCall ==
    /\ \A k \in DOMAIN orphans : orphans[k] = 0
    /\ \E c \in EvictChats :
          LET ty == StartTypingMax(TypingState, c, EvictMax) IN
              /\ typing_tasks' = ty.pool
              /\ orphans' = ty.orph
              /\ typing_cleanup_counter' = ty.counter
              /\ last_evicted' = ty.evicted
    /\ UNCHANGED <<pollVars, sd_pc, sendVars>>

\* one call of _stop_typing, likewise
StopTypingCall ==
    /\ \A k \in DOMAIN orphans : orphans[k] = 0
    /\ \E c \in EvictChats :
          LET ty == StopTyping(TypingState, c) IN
              /\ typing_tasks' = ty.pool
              /\ orphans' = ty.orph
              /\ typing_cleanup_counter' = ty.counter
              /\ last_evicted' = ty.evicted
    /\ UNCHANGED <<pollVars, sd_pc, sendVars>>

NextEvict ==
    \/ StartTypingCall
    \/ StopTypingCall

SpecEvict == InitEvict /\ [][NextEvict]_vars

\* ---- properties -------------------------------------------------------------
MaxOf(s) == CHOOSE m \in {s[k] : k \in DOMAIN s} : \A k \in DOMAIN s : s[k] <= m
ActiveCount(c) ==
    Cardinality({i \in DOMAIN typing_tasks :
                    typing_tasks[i].chat = c /\ IsActive(typing_tasks[i].st)})
        + orphans[<<c, "running">>]
CancelPending(c) == orphans[<<c, "cancelled">>]

\* C1: when the loop has finished with a batch and fetches again, no update of
\* that batch whose id is below the cursor has been left out of dispatch, also
\* when dispatching one update of the batch raised.
C1_NoGapBelowCursor ==
    poll_pc = "fetching" =>
        \A k \in DOMAIN updates :
            updates[k] < update_offset => updates[k] \in dispatched

\* C2: the cursor is written for a batch only once every update of that batch
\* has been handed to the dispatcher: a step that changes the cursor ends with
\* the whole batch dispatched.
C2_CursorAfterDispatch ==
    [][update_offset' # update_offset => upd_idx' = Len(updates')]_vars

\* C3 (as stated): the cursor never decreases, whatever batch a fetch returns.
C3_CursorMonotone == [][update_offset' >= update_offset]_vars

\* C3 (amended): the cursor never decreases over a step in which no id below
\* the cursor was returned: fetches that time out, fail or return an empty
\* batch, and fetches whose ids are all at or above the offset sent.
C3_MonotoneForIdsFromOffset ==
    [][(\A k \in DOMAIN updates' : updates'[k] >= update_offset)
          => update_offset' >= update_offset]_vars

\* a non-empty batch of ids at or above a non-zero offset has moved the cursor up
C3_Witness ==
    /\ updates # <<>>
    /\ sent_offset > 0
    /\ \A k \in DOMAIN updates : updates[k] >= sent_offset
    /\ update_offset > sent_offset

\* C4: a fetch issued after a getUpdates call that failed (transport error or
\* API rejection) was preceded by the backoff pause.
C4_BackoffBeforeRetry ==
    (poll_pc = "fetching" /\ last_fetch \in {"transport_error", "api_rejected"}) => paused

\* C5: for every chat at most one typing task is active (not finished, not
\* cancelled), in the pool or outside it.
C5_OneActiveTypingTask == \A c \in Chats : ActiveCount(c) <= 1

\* a chat was started again while its earlier task had not been stopped: the
\* earlier task is cancelled and not yet finished, the new one is active
C5_Witness ==
    \E c \in Chats : ActiveCount(c) = 1 /\ InPool(typing_tasks, c) /\ CancelPending(c) > 0

\* C6: the pool never holds more than the configured maximum of entries.
C6_PoolWithinMaximum == Len(typing_tasks) <= TELEGRAM_MAX_TYPING_TASKS

\* a start found the pool full of unfinished tasks, evicted and inserted
C6_Witness == last_evicted >= 1 /\ Len(typing_tasks) = TELEGRAM_MAX_TYPING_TASKS

\* C7: no chunk returned by _split_long_message is longer than the maximum.
C7_ChunksWithinLimit ==
    send_pc \in {"md", "plain", "done"} =>
        \A i \in DOMAIN chunks : Len(chunks[i]) <= TELEGRAM_MAX_MESSAGE_LENGTH

\* C8: a cancellation never leaves the coroutine of the cancelled task: the
\* polling task never ends with the CancelledError propagating out of it.
C8_CancellationSwallowed == poll_pc # "escaped"

\* C9: once shutdown has cancelled the typing tasks, the polling task has
\* ended, the pool is empty and no typing task is active.
C9_NoTypingAfterShutdown ==
    sd_pc \in {"closing", "done"} =>
        /\ poll_pc \in {"none", "stopped", "escaped"}
        /\ typing_tasks = <<>>
        /\ \A c \in Chats : ActiveCount(c) = 0

\* shutdown stopped the polling loop after it had started a typing task, and
\* has cancelled that task
C9_Witness ==
    /\ sd_pc = "closing"
    /\ poll_pc = "stopped"
    /\ update_offset > 0
    /\ \E c \in Chats : CancelPending(c) > 0

\* C10 (as stated): after a fetch returned a non-empty batch the cursor is the
\* largest id of the batch plus one, for every batch.
C10_CursorIsMaxPlusOne == updates # <<>> => update_offset = MaxOf(updates) + 1

\* C10 (amended): after a fetch returned a non-empty batch the cursor is the id
\* of the last update of the batch plus one, which is the largest id plus one
\* when the batch is in ascending order.
C10_CursorIsLastPlusOne ==
    updates # <<>> =>
        /\ update_offset = Last(updates) + 1
        /\ Ascending(updates) => update_offset = MaxOf(updates) + 1

\* an ascending batch of two updates has been fetched
C10_Witness == Len(updates) >= 2 /\ Ascending(updates) /\ update_offset = MaxOf(updates) + 1

\* ---- fairness ---------------------------------------------------------------
\* The actor talking to a remote that keeps to the contract, with the event
\* loop running: a sleep that is over resumes its task, and a requested
\* cancellation is raised in the task at its suspension point.
SpecFair ==
    /\ InitRemote
    /\ [][Next]_vars
    /\ WF_vars(BackoffDone)
    /\ WF_vars(PollCancelDelivered)

FetchFailures == {"timeout", "transport_error", "api_rejected"}

\* C11: the polling task ends only in a step that delivers a requested
\* cancellation; a getUpdates call that times out, fails or is rejected leaves
\* the loop issuing its next fetch; and after an error raised while dispatching
\* an update (the loop is in its pause) the loop eventually fetches again,
\* unless the task is cancelled first.
C11_LoopEndsOnlyOnCancel ==
    /\ [][(PollingTaskDone' /\ ~PollingTaskDone) => poll_cancel]_vars
    /\ [][(poll_pc = "fetching" /\ last_fetch' \in FetchFailures) => poll_pc' = "fetching"]_vars
    /\ (poll_pc = "backoff") ~> (poll_pc = "fetching" \/ PollingTaskDone)

\* the loop fetches again after the pause that followed a dispatch error
C11_Witness == poll_pc = "fetching" /\ paused /\ updates # <<>> /\ ~poll_cancel

\* indices in updates' of the updates a step hands to _process_update: the
\* first ones of a batch just fetched, or the next ones of the batch in hand
NewlyHanded ==
    IF poll_pc = "fetching"
    THEN IF <<updates', upd_idx'>> = <<updates, upd_idx>> THEN {} ELSE 1..upd_idx'
    ELSE (upd_idx + 1)..upd_idx'
NoDuplicateStep == \A k \in NewlyHanded : updates'[k] \notin dispatched

\* C12 (as stated): with a remote that returns only ids at or above the offset
\* of the request, in whatever order, no step hands to _process_update an update
\* id that was handed to it before.
C12_NoDuplicateFromOffset ==
    [][(remote \in {"from_offset", "ordered"}) => (NoDuplicateStep)]_vars

\* C12 (amended): with a remote that returns only ids at or above the offset of
\* the request and in ascending order, no step hands to _process_update an
\* update id that was handed to it before.
C12_NoDuplicateOrdered == [][(remote = "ordered") => (NoDuplicateStep)]_vars

\* an update of a later batch of the ordered remote has been dispatched
C12_Witness ==
    /\ remote = "ordered"
    /\ upd_idx >= 1
    /\ \E x \in dispatched : x < updates[1]

\* C13: in the log of sendMessage calls of one _send_message, the chunks are
\* attempted in their order, each first with parse_mode; a call without
\* parse_mode is made only right after the call with parse_mode of the same
\* chunk failed, and always then; so a chunk gets at most two calls.  Whatever
\* the outcomes, _send_message ends normally with every chunk attempted.
C13_OneRetryPerChunk ==
    /\ \A k \in DOMAIN calls :
          /\ calls[k].mode = "Markdown" =>
                calls[k].chunk = IF k = 1 THEN 1 ELSE calls[k - 1].chunk + 1
          /\ calls[k].mode = "plain" =>
                /\ k > 1
                /\ calls[k - 1].mode = "Markdown"
                /\ ~calls[k - 1].ok
                /\ calls[k - 1].chunk = calls[k].chunk
          /\ (calls[k].mode = "Markdown" /\ ~calls[k].ok) =>
                IF k < Len(calls)
                THEN calls[k + 1].mode = "plain" /\ calls[k + 1].chunk = calls[k].chunk
                ELSE send_pc = "plain"
          /\ (calls[k].mode = "Markdown" /\ calls[k].ok /\ k < Len(calls)) =>
                calls[k + 1].mode = "Markdown"
          /\ Cardinality({j \in DOMAIN calls : calls[j].chunk = calls[k].chunk}) <= 2
    /\ send_pc = "done" =>
          \A i \in DOMAIN chunks :
              \E k \in DOMAIN calls : calls[k].chunk = i /\ calls[k].mode = "Markdown"

\* both calls of a chunk failed, the next chunk was attempted and the send is over
C13_Witness ==
    /\ send_pc = "done"
    /\ \E k \in DOMAIN calls :
          /\ calls[k].mode = "plain"
          /\ ~calls[k].ok
          /\ k < Len(calls)
          /\ calls[k + 1].chunk = calls[k].chunk + 1

\* "\n\n".join(chunks)
RECURSIVE Join(_)
Join(cs) ==
    IF cs = <<>> THEN <<>>
    ELSE IF Len(cs) = 1 THEN cs[1]
    ELSE cs[1] \o <<NL, NL>> \o Join(Tail(cs))
NoLongParagraph(t) ==
    \A i \in DOMAIN SplitParagraphs(t) :
        Len(SplitParagraphs(t)[i]) <= TELEGRAM_MAX_MESSAGE_LENGTH

\* C14: for every text none of whose paragraphs is longer than the maximum, the
\* chunks of _split_long_message joined with the paragraph separator are the
\* text itself.
C14_SplitJoinRoundTrip ==
    (send_pc \in {"md", "plain", "done"} /\ NoLongParagraph(text)) => Join(chunks) = text

CeilTenth(n) == (n + 9) \div 10
\* the pool as the forced sweep leaves it; a start that evicts is the start of
\* a chat that has no entry
Swept == CleanupTypingTasks(typing_tasks)

\* C15: a _start_typing (it counts the call) that evicts found the swept pool at or above the
\* maximum; it removes between 1 and a tenth (rounded up) of the swept pool,
\* the removed entries are the first ones in insertion order, the task of each
\* is cancelled, and the other entries follow unchanged, their tasks not
\* cancelled, with the new entry last.
C15_EvictsOldestTenth ==
    [][(last_evicted' >= 1 /\ typing_cleanup_counter' # typing_cleanup_counter) =>
          LET n == Len(Swept)
              e == last_evicted'
          IN /\ n >= EvictMax
             /\ e >= 1
             /\ e <= CeilTenth(n)
             /\ Len(typing_tasks') = n - e + 1
             /\ \A i \in 1..(n - e) : typing_tasks'[i] = Swept[i + e]
             /\ \A i \in 1..e :
                   orphans'[<<Swept[i].chat, "cancelled">>]
                       = orphans[<<Swept[i].chat, "cancelled">>] + 1
             /\ \A i \in (e + 1)..n :
                   \A st \in OrphanStates :
                       orphans'[<<Swept[i].chat, st>>] = orphans[<<Swept[i].chat, st>>]
             /\ ~InPool(typing_tasks, Last(typing_tasks').chat)
             /\ Last(typing_tasks').st = "api"]_vars

\* a start has evicted more than one entry of a pool whose oldest entry had
\* been started again before
C15_Witness ==
    /\ last_evicted >= 2
    /\ Len(typing_tasks) = EvictMax - last_evicted + 1
    /\ \E i \in DOMAIN typing_tasks : typing_tasks[i].chat = 1

\* C16: in every state and for every chat c, _stop_typing(c) leaves the state
\* as it is when c has no entry; a second _stop_typing(c) right after the first
\* changes nothing more; and _stop_typing(c) leaves the counter, the entries of
\* the other chats, their order, and the other chats' tasks outside the pool
\* as they are.
C16_StopIdempotent ==
    \A c \in EvictChats :
        LET once == StopTyping(TypingState, c)
            twice == StopTyping(once, c)
        IN /\ ~InPool(typing_tasks, c) => once = TypingState
           /\ ~InPool(once.pool, c)
           /\ twice = once
           /\ once.counter = typing_cleanup_counter
           /\ SelectSeq(once.pool, LAMBDA e : e.chat # c)
                 = SelectSeq(typing_tasks, LAMBDA e : e.chat # c)
           /\ \A d \in EvictChats \ {c} :
                 \A st \in OrphanStates : once.orph[<<d, st>>] = orphans[<<d, st>>]

\* _stop_typing has removed and cancelled the task of one chat of a pool that
\* holds the tasks of other chats
C16_Witness ==
    /\ Len(typing_tasks) = EvictMax - 2
    /\ \E c \in EvictChats : orphans[<<c, "cancelled">>] = 1 /\ ~InPool(typing_tasks, c)

\* C17: while a BOT_RESPONSE or an ERROR is handled, its chat has no typing
\* task from the first sendMessage on, and the text sent is the text of the
\* response, or the template of the error type, in the chunks of
\* _split_long_message; a BOT_RESPONSE is sent on to "user_session" unchanged
\* and only after the last chunk, and it is always sent on, whatever the
\* outcomes of the sendMessage calls; an ERROR sends nothing to the bus.
HandledInOrder ==
    /\ (envelope.type \in {"BOT_RESPONSE", "ERROR"} /\ send_pc # "idle") =>
          /\ ~InPool(typing_tasks, envelope.chat)
          /\ text = IF envelope.type = "BOT_RESPONSE" THEN envelope.text
                    ELSE ErrorText(envelope.error_type)
          /\ chunks = SplitLongMessage(text)
    /\ envelope.type = "BOT_RESPONSE" =>
          \/ bus = <<>>
          \/ send_pc = "done" /\ bus = <<[to |-> "user_session", msg |-> envelope]>>
    /\ envelope.type = "ERROR" => bus = <<>>
C17_StopSendForward ==
    /\ []HandledInOrder
    /\ (envelope.type = "BOT_RESPONSE") ~> (send_pc = "done" /\ bus # <<>>)

\* a response whose task was in the pool has been sent on after every one of
\* its sendMessage calls failed
C17_Witness ==
    /\ envelope.type = "BOT_RESPONSE"
    /\ bus # <<>>
    /\ Len(chunks) >= 2
    /\ Len(calls) = 2 * Len(chunks)
    /\ \A k \in DOMAIN calls : ~calls[k].ok
    /\ orphans[<<envelope.chat, "cancelled">>] = 1

\* a step of the polling task that ends with the bus send of a text update
\* awaited, or with the reply to a command awaited
EntersBusSend ==
    /\ poll_pc' = "bus_send"
    /\ poll_pc # "bus_send" \/ upd_idx' # upd_idx \/ updates' # updates
EntersSendMd ==
    /\ poll_pc' = "send_md"
    /\ poll_pc # "send_md" \/ upd_idx' # upd_idx \/ updates' # updates

\* C18: a step of the polling task changes the typing pool only when it ends
\* with the envelope of a text update on its way to the bus, and then the
\* typing task of that update is already in the pool, the newest entry, in its
\* first sendChatAction; a step that passes over updates without text, or that
\* ends with the reply to a command awaited, leaves pool, counter and the
\* tasks outside the pool as they are and sends nothing to the bus.
C18_DispatchEffects ==
    [][/\ (pollVars' # pollVars /\ poll_pc' # "bus_send") => UNCHANGED typingVars
       /\ EntersSendMd => UNCHANGED typingVars
       /\ EntersBusSend =>
             /\ typing_tasks' # <<>>
             /\ Last(typing_tasks').st = "api"
             /\ typing_cleanup_counter' # typing_cleanup_counter
             /\ \A i \in 1..(Len(typing_tasks') - 1) :
                   typing_tasks'[i].chat # Last(typing_tasks').chat]_vars

\* the loop has gone on to its next fetch while the typing task of a text
\* update it dispatched is running: no reply was waited for
C18_Witness ==
    /\ poll_pc = "fetching"
    /\ last_fetch = "ok"
    /\ upd_idx >= 1
    /\ typing_cleanup_counter = 1
    /\ \E i \in DOMAIN typing_tasks : IsActive(typing_tasks[i].st)

\* C19: a step that changes the cursor is the return of a getUpdates call that
\* succeeded with a batch, and the cursor it writes is the last id of that
\* batch plus one; over the return of a call that timed out, failed or was
\* rejected the cursor stays, the batch is empty and nothing is dispatched.
C19_CursorWrittenByFetchOnly ==
    [][/\ update_offset' # update_offset =>
             /\ poll_pc = "fetching"
             /\ ~poll_cancel
             /\ last_fetch' = "ok"
             /\ updates' # <<>>
             /\ update_offset' = Last(updates') + 1
       /\ (poll_pc = "fetching" /\ last_fetch' \in FetchFailures) =>
             /\ update_offset' = update_offset
             /\ updates' = <<>>
             /\ dispatched' = dispatched]_vars

\* a call has failed after updates were dispatched: the cursor is where the
\* last batch left it
C19_Witness ==
    /\ poll_pc = "fetching"
    /\ last_fetch \in FetchFailures
    /\ update_offset > 0
    /\ dispatched # {}

\* an entry whose task is not finished leaves the pool only with that task
\* cancelled in the same step
RemovedIsCancelled ==
    \A i \in DOMAIN typing_tasks :
        LET c == typing_tasks[i].chat IN
            (IsActive(typing_tasks[i].st) /\ ~InPool(typing_tasks', c)) =>
                orphans'[<<c, "cancelled">>] = orphans[<<c, "cancelled">>] + 1

\* C20: no task that is still running and not cancelled is outside the pool,
\* and the pool holds one entry per chat; an entry removed by _stop_typing, a
\* restart, an eviction or shutdown has its task cancelled, and the
\* housekeeping sweep removes only entries whose task is done.
C20_NoTypingTaskLeak ==
    /\ [](/\ \A c \in Chats : orphans[<<c, "running">>] = 0
          /\ \A i, j \in DOMAIN typing_tasks :
                i # j => typing_tasks[i].chat # typing_tasks[j].chat)
    /\ [][RemovedIsCancelled]_vars

\* an eviction has cancelled the task of one chat while the task of the chat
\* just started runs in the pool
C20_Witness ==
    /\ last_evicted >= 1
    /\ \E c, d \in Chats :
          /\ c # d
          /\ CancelPending(c) > 0
          /\ ~InPool(typing_tasks, c)
          /\ InPool(typing_tasks, d)
          /\ IsActive(typing_tasks[IndexOf(typing_tasks, d)].st)
====
